---- MODULE Spec2Model ----
(***************************************************************************)
(* Agentic Motion Studio (src/webapp/src/app/page.tsx): the scene list,    *)
(* the preview timeline, the preview loop and the export pipeline          *)
(* (handleRender, synthesizeVideo, cleanupFfmpeg) as a state machine.      *)
(*                                                                         *)
(* Time is counted in hundredths of a second, so a duration of 2.03 s is   *)
(* 203.  No duration or sum of durations used here lies within 1/50 of a   *)
(* rounding tie of Math.round(seconds * 24), so the integer arithmetic     *)
(* below rounds exactly as the floating-point code does.                   *)
(***************************************************************************)
EXTENDS Integers, Sequences, FiniteSets

VARIABLES
    scenes,          \* useState<Scene[]>: the current scene list
    view,            \* the scene list captured by the closures of the last render
    nextId,          \* the next fresh scene id (nanoid)
    selectedSceneId, \* useState<string>
    previewTime,     \* useState(0), hundredths of a second
    previewCalls,    \* the renderSceneFrame calls of the last renderPreviewFrame
    isPreviewPlaying, \* useState(true)
    rafLoop,         \* the closure of the preview loop effect that is scheduled
    renderState,     \* useState<RenderState>
    previousUrlRef,  \* useRef<string>()
    liveUrls,        \* object URLs created and not yet revoked
    attempts,        \* one record per handleRender invocation
    clicks,          \* how many times handleRender has been invoked
    storage,         \* the names held by the encoder's working storage
    queue,           \* the attempts awaiting the encoder, in the order they called it
    undeletable      \* the names whose deleteFile throws and leaves the file

vars == <<scenes, view, nextId, selectedSceneId, previewTime, previewCalls,
          isPreviewPlaying, rafLoop,
          renderState, previousUrlRef, liveUrls, attempts, clicks, storage,
          queue, undeletable>>

sceneVars == <<scenes, view, nextId, selectedSceneId>>
previewVars == <<previewTime, previewCalls, isPreviewPlaying, rafLoop>>
exportVars == <<renderState, previousUrlRef, liveUrls, attempts, clicks,
                storage, queue, undeletable>>

----------------------------------------------------------------------------
(* Program constants *)

FPS == 24
MAX_SCENES == 6
MIN_DURATION == 2
MAX_DURATION == 8

(* Bounds of the model *)

\* longest scene list drawn as an input
MaxScenes == 2
\* handleRender invocations in one behaviour
MaxClicks == 2
\* how far past the ends of the timeline the preview time is drawn
MaxOvershoot == 3
\* scene ids handed out in one behaviour of the scene editor
MaxIds == 4

----------------------------------------------------------------------------
(* Helpers *)

Max(a, b) == IF a >= b THEN a ELSE b
Min(a, b) == IF a <= b THEN a ELSE b

\* Math.round(cs / 100) for cs >= 0: round half up
JsRound(cs) == (2 * cs + 100) \div 200

clamp(value, min, max) == Min(Max(value, min), max)

\* the ids of GRADIENTS (@/lib/palette), in catalogue order
GRADIENTS == <<"aurora", "midnight", "sunset">>

GradientIndex(id) ==
    IF \E i \in 1..Len(GRADIENTS) : GRADIENTS[i] = id
    THEN CHOOSE i \in 1..Len(GRADIENTS) : GRADIENTS[i] = id
    ELSE 0

\* the scenes drawn as inputs, durations in hundredths of a second: the
\* duration input steps by 0.5 but its onChange keeps any typed value clamped
\* to [2, 8], so 2.03 can be held; "ghost" is an id GRADIENTS does not have
SceneChoices ==
    { [duration |-> 200, gradientId |-> "aurora"],
      [duration |-> 203, gradientId |-> "midnight"],
      [duration |-> 200, gradientId |-> "ghost"] }

RECURSIVE SeqsUpTo(_, _)
SeqsUpTo(S, n) ==
    IF n = 0 THEN { <<>> }
    ELSE LET shorter == SeqsUpTo(S, n - 1)
         IN shorter \cup { Append(s, x) : s \in shorter, x \in S }

\* a scene list with ids 1..n
MkScenes(choice) ==
    [i \in 1..Len(choice) |->
        [id |-> i, duration |-> choice[i].duration,
         gradientId |-> choice[i].gradientId]]

SceneLists == { MkScenes(c) : c \in SeqsUpTo(SceneChoices, MaxScenes) \ { <<>> } }

RECURSIVE SumDurations(_, _)
SumDurations(list, n) ==
    IF n = 0 THEN 0 ELSE SumDurations(list, n - 1) + list[n].duration

totalDurationForScenes(list) == SumDurations(list, Len(list))

----------------------------------------------------------------------------
(* Frame renderer and preview timeline *)

\* renderSceneFrame: throws when the gradient is not in the registry
renderSceneFrameThrows(scene) == GradientIndex(scene.gradientId) = 0

\* the loop of renderPreviewFrame with a half-closed test, `time > start &&
\* time <= end`, in place of the half-open one
RECURSIVE ResolveClosedEnd(_, _, _, _)
ResolveClosedEnd(list, time, i, elapsed) ==
    IF i > Len(list)
    THEN [scene |-> Len(list), num |-> 1, den |-> 1]
    ELSE LET start == elapsed
             end == start + list[i].duration
         IN IF time > start /\ time <= end
            THEN [scene |-> i, num |-> time - start, den |-> list[i].duration]
            ELSE ResolveClosedEnd(list, time, i + 1, end)

\* the loop of renderPreviewFrame from scene i on, `elapsed` accumulated so
\* far: the renderSceneFrame call it ends with, as scene index and progress
\* num/den
RECURSIVE Resolve(_, _, _, _)
Resolve(list, time, i, elapsed) ==
    IF i > Len(list)
    THEN [scene |-> Len(list), num |-> 1, den |-> 1]
    ELSE LET start == elapsed
             end == start + list[i].duration
         IN IF time >= start /\ time < end
            THEN [scene |-> i, num |-> time - start, den |-> list[i].duration]
            ELSE Resolve(list, time, i + 1, end)

\* the renderSceneFrame calls one renderPreviewFrame makes
renderPreviewFrame(list, time) ==
    IF totalDurationForScenes(list) = 0 THEN <<>>
    ELSE << Resolve(list, time, 1, 0) >>

----------------------------------------------------------------------------
(* The preview loop effect *)

\* the effect on [isPreviewPlaying, totalDuration, previewTime] has run with
\* the preview playing: a closure holding the previewTime and totalDuration
\* of its render and `startTimestamp = null`, scheduled for the next
\* animation frame.  Timestamps are in milliseconds and are counted from the
\* animation frame before, so startTimestamp is zero or negative.
NewLoop(time, total) ==
    [active |-> TRUE, previewTime |-> time, totalDuration |-> total,
     started |-> FALSE, startTimestamp |-> 0]

\* the effect has run with the preview paused, or has been cleaned up: no
\* animation frame is requested
NoLoop ==
    [active |-> FALSE, previewTime |-> 0, totalDuration |-> 0,
     started |-> FALSE, startTimestamp |-> 0]

\* `startTimestamp` as the raf callback uses it at `timestamp`
StartOf(loop, timestamp) ==
    IF loop.started THEN loop.startTimestamp
    ELSE timestamp - loop.previewTime * 10

\* `elapsed` of the raf callback, in hundredths of a second
ElapsedAt(loop, timestamp) == (timestamp - StartOf(loop, timestamp)) \div 10

\* the effect as it runs after a render with these values
EffectRun(playing, time, total) ==
    IF playing THEN NewLoop(time, total) ELSE NoLoop

\* the dependencies of the effect differ from those of the run that made `loop`
DepsChanged(loop, playing, time, total) ==
    \/ loop.active # playing
    \/ playing /\ (loop.previewTime # time \/ loop.totalDuration # total)

----------------------------------------------------------------------------
(* Encoder working storage: file names *)

\* String(n): the decimal digits of n >= 0
RECURSIVE String(_)
String(n) == IF n < 10 THEN <<n>> ELSE Append(String(n \div 10), n % 10)

\* s.padStart(width, fill): fill on the left up to width, never truncating
RECURSIVE padStart(_, _, _)
padStart(s, width, fill) ==
    IF Len(s) >= width THEN s ELSE padStart(<<fill>> \o s, width, fill)

\* `frame_${String(frameIndex).padStart(5, "0")}.png`
FrameFile(frameIndex) == <<"frame_", padStart(String(frameIndex), 5, 0), ".png">>

OutputFile == <<"output", <<>>, ".mp4">>

----------------------------------------------------------------------------
(* RenderState and the stage callback of handleRender *)

NoUrl == <<>>
BlobUrl(a) == <<"blob", a>>

Frac(n, d) == [num |-> n, den |-> d]

IdleState ==
    [status |-> "idle", progress |-> Frac(0, 1), url |-> NoUrl, error |-> ""]

\* onStage in handleRender: the RenderState each (stage, n/d) report sets
StageState(stage, n, d) ==
    IF stage = "loading"
    THEN [status |-> "loading-encoder", progress |-> Frac(5 * d + 15 * n, 100 * d),
          url |-> NoUrl, error |-> ""]
    ELSE IF stage = "frames"
    THEN [status |-> "encoding", progress |-> Frac(20 * d + 60 * n, 100 * d),
          url |-> NoUrl, error |-> ""]
    ELSE [status |-> "encoding", progress |-> Frac(80 * d + 20 * n, 100 * d),
          url |-> NoUrl, error |-> ""]

ReadyState(url) ==
    [status |-> "ready", progress |-> Frac(1, 1), url |-> url, error |-> ""]

ErrorState(message) ==
    [status |-> "error", progress |-> Frac(0, 1), url |-> NoUrl, error |-> message]

Report(stage, n, d) == [stage |-> stage, num |-> n, den |-> d]

----------------------------------------------------------------------------
(* synthesizeVideo: one record per attempt *)

\* framesForScene with Math.floor in place of Math.round
FramesForSceneFloor(scene) == Max(1, (scene.duration * FPS) \div 100)

FramesForScene(scene) == Max(1, JsRound(scene.duration * FPS))

TotalFrames(list) == Max(1, JsRound(totalDurationForScenes(list) * FPS))

\* local progress of frame `frame` of a scene with `n` frames, as num/den
FrameProgress(frame, n) == IF n <= 1 THEN Frac(1, 1) ELSE Frac(frame, n - 1)

\* the attempt as handleRender creates it, before synthesizeVideo has run
NewAttempt(list) ==
    [pc |-> "start", scenes |-> list, acquired |-> FALSE, totalFrames |-> 0,
     sceneIdx |-> 1, frame |-> 0, frameIndex |-> 0,
     writeLog |-> <<>>, writtenFiles |-> <<>>, pending |-> {},
     stageLog |-> <<>>, data |-> FALSE, err |-> "", cleanupIdx |-> 0,
     execIssued |-> FALSE, deleteFailed |-> FALSE, outcome |-> ""]

\* onStage(stage, n/d) as seen from the attempt
Staged(att, stage, n, d) ==
    [att EXCEPT !.stageLog = Append(@, Report(stage, n, d))]

\* the attempt leaves synthesizeVideo by an exception no finally block catches
Thrown(att, message) ==
    [att EXCEPT !.pc = "done", !.err = message, !.outcome = "error"]

InFlight == { a \in 1..clicks : attempts[a].pc # "done" }

\* RunFrames reading the page's current scene list at every frame, in place
\* of the array synthesizeVideo was called with
RunFramesLive(att, serializes) ==
    IF att.sceneIdx > Len(scenes)
    THEN [Staged(att, "muxing", 1, 10) EXCEPT
             !.pc = "exec", !.execIssued = TRUE,
             !.pending = @ \cup { [op |-> "exec", name |-> OutputFile] }]
    ELSE LET scene == scenes[att.sceneIdx]
             progress == FrameProgress(att.frame, FramesForScene(scene))
             filename == FrameFile(att.frameIndex)
         IN IF renderSceneFrameThrows(scene)
            THEN Thrown(att, "Missing gradient.")
            ELSE IF ~serializes
            THEN Thrown(att, "Base64 decoding is not available in this environment.")
            ELSE [att EXCEPT
                     !.pc = "writing",
                     !.writeLog = Append(@, [name |-> filename, scene |-> scene.id,
                                             num |-> progress.num,
                                             den |-> progress.den]),
                     !.pending = @ \cup { [op |-> "write", name |-> filename] }]

\* the frame loop from its current position up to its next await: the loop
\* ends (stage muxing 0.1, exec issued), a frame is rendered, serialized and
\* handed to writeFile, or the render or the serialization throws
RunFrames(att, serializes) ==
    IF att.sceneIdx > Len(att.scenes)
    THEN [Staged(att, "muxing", 1, 10) EXCEPT
             !.pc = "exec", !.execIssued = TRUE,
             !.pending = @ \cup { [op |-> "exec", name |-> OutputFile] }]
    ELSE LET scene == att.scenes[att.sceneIdx]
             progress == FrameProgress(att.frame, FramesForScene(scene))
             filename == FrameFile(att.frameIndex)
         IN IF renderSceneFrameThrows(scene)
            THEN Thrown(att, "Missing gradient.")
            ELSE IF ~serializes
            THEN Thrown(att, "Base64 decoding is not available in this environment.")
            ELSE [att EXCEPT
                     !.pc = "writing",
                     !.writeLog = Append(@, [name |-> filename, scene |-> scene.id,
                                             num |-> progress.num,
                                             den |-> progress.den]),
                     !.pending = @ \cup { [op |-> "write", name |-> filename] }]

\* AfterWrite with the file counter restarted at each scene
AfterWritePerScene(att, filename) ==
    LET counted == [att EXCEPT !.writtenFiles = Append(@, filename),
                               !.frameIndex = @ + 1]
        reported == Staged(counted, "frames", counted.frameIndex, att.totalFrames)
    IN IF att.frame + 1 < FramesForScene(att.scenes[att.sceneIdx])
       THEN [reported EXCEPT !.frame = @ + 1]
       ELSE [reported EXCEPT !.sceneIdx = @ + 1, !.frame = 0, !.frameIndex = 0]

\* after `await ffmpeg.writeFile(filename, pixels)`: push, count, report, and
\* step the two loop counters
AfterWrite(att, filename) ==
    LET counted == [att EXCEPT !.writtenFiles = Append(@, filename),
                               !.frameIndex = @ + 1]
        reported == Staged(counted, "frames", counted.frameIndex, att.totalFrames)
    IN IF att.frame + 1 < FramesForScene(att.scenes[att.sceneIdx])
       THEN [reported EXCEPT !.frame = @ + 1]
       ELSE [reported EXCEPT !.sceneIdx = @ + 1, !.frame = 0]

\* the name the i-th deleteFile of cleanupFfmpeg is called with
CleanupTarget(files, i) == IF i <= Len(files) THEN files[i] ELSE OutputFile

\* the finally block: cleanupFfmpeg(ffmpeg, writtenFiles) issues its first delete
StartCleanup(att) ==
    [att EXCEPT !.pc = "cleanup", !.cleanupIdx = 1,
                !.pending = @ \cup { [op |-> "delete",
                                      name |-> CleanupTarget(att.writtenFiles, 1)] }]

\* AfterCleanup with neither the pending exception nor `data` looked at: the
\* attempt returns a Blob whatever happened inside the try block
AfterCleanupUnchecked(att) ==
    [att EXCEPT !.pc = "done", !.outcome = "ready"]

\* what synthesizeVideo does once cleanupFfmpeg has returned
AfterCleanup(att) ==
    IF att.err # "" THEN [att EXCEPT !.pc = "done", !.outcome = "error"]
    ELSE IF ~att.data
    THEN Thrown(att, "Failed to read rendered video output.")
    ELSE [att EXCEPT !.pc = "done", !.outcome = "ready"]

\* the RenderState after a step of attempt a that took it from old to new
Settled(a, old, new) ==
    IF new.outcome = "error" THEN ErrorState(new.err)
    ELSE IF new.outcome = "ready" THEN ReadyState(BlobUrl(a))
    ELSE IF Len(new.stageLog) > Len(old.stageLog)
    THEN LET last == new.stageLog[Len(new.stageLog)]
         IN StageState(last.stage, last.num, last.den)
    ELSE renderState

\* the request attempt a is awaiting
Awaited(a, op) == { r \in attempts[a].pending : r.op = op }

\* the encoder answers the oldest call, attempt a's, and a runs on to `new`,
\* its next call or its end; the caller states storage and undeletable.
\* Calls are answered in the order they were made (one encoder instance
\* serving one call at a time); an attempt on its own has one call
\* outstanding, so the order constrains only attempts that overlap.
Step(a, new) ==
    /\ queue # <<>> /\ Head(queue) = a
    /\ queue' = IF new.pending # {} THEN Append(Tail(queue), a) ELSE Tail(queue)
    /\ attempts' = [attempts EXCEPT ![a] = new]
    /\ renderState' = Settled(a, attempts[a], new)
    /\ IF new.outcome = "ready"
       THEN /\ liveUrls' = liveUrls \cup { BlobUrl(a) }
            /\ previousUrlRef' = BlobUrl(a)
       ELSE UNCHANGED <<liveUrls, previousUrlRef>>
    /\ UNCHANGED <<clicks, sceneVars, previewVars>>

----------------------------------------------------------------------------
(* Actions of the export pipeline *)

\* HandleRender with synthesizeVideo's check of `scenes.length` left out: the
\* encoder is asked for whatever the list holds
HandleRenderNoValidation ==
    /\ clicks < MaxClicks
    /\ LET a == clicks + 1
           started == [Staged(NewAttempt(view), "loading", 1, 10) EXCEPT
                          !.pc = "loading",
                          !.pending = { [op |-> "load", name |-> <<>>] }]
       IN /\ clicks' = a
          /\ liveUrls' = liveUrls \ { previousUrlRef }
          /\ previousUrlRef' = NoUrl
          /\ attempts' = [i \in 1..a |-> IF i = a THEN started ELSE attempts[i]]
          /\ queue' = Append(queue, a)
          /\ renderState' = StageState("loading", 1, 10)
    /\ UNCHANGED <<storage, undeletable, sceneVars, previewVars>>

\* a click on Render Video: handleRender up to `await getFFmpeg()`
HandleRender ==
    /\ clicks < MaxClicks
    /\ LET a == clicks + 1
           fresh == NewAttempt(view)
           started ==
               IF Len(view) = 0
               THEN Thrown(fresh, "Add at least one scene before rendering.")
               ELSE [Staged(fresh, "loading", 1, 10) EXCEPT
                        !.pc = "loading",
                        !.pending = { [op |-> "load", name |-> <<>>] }]
       IN /\ clicks' = a
          /\ liveUrls' = liveUrls \ { previousUrlRef }
          /\ previousUrlRef' = NoUrl
          /\ attempts' = [i \in 1..a |-> IF i = a THEN started ELSE attempts[i]]
          /\ queue' = IF started.pending # {} THEN Append(queue, a) ELSE queue
          /\ renderState' =
                 IF started.outcome = "error" THEN ErrorState(started.err)
                 ELSE StageState("loading", 1, 10)
    /\ UNCHANGED <<storage, undeletable, sceneVars, previewVars>>

\* getFFmpeg() resolves: stage loading 1, the canvas, then the first frame
LoadOk(a, surface, serializes) ==
    /\ attempts[a].pc = "loading"
    /\ \E r \in Awaited(a, "load") :
         LET att == attempts[a]
             loaded == [Staged(att, "loading", 1, 1) EXCEPT
                           !.pending = @ \ {r}, !.acquired = TRUE]
             ready == [loaded EXCEPT !.totalFrames = TotalFrames(att.scenes)]
         IN Step(a, IF surface
                    THEN RunFrames(ready, serializes)
                    ELSE Thrown(loaded, "Unable to access 2D context for rendering."))
    /\ UNCHANGED <<storage, undeletable>>

\* getFFmpeg() rejects
LoadFail(a) ==
    /\ attempts[a].pc = "loading"
    /\ \E r \in Awaited(a, "load") :
         Step(a, Thrown([attempts[a] EXCEPT !.pending = @ \ {r}],
                        "Encoder failed to load."))
    /\ UNCHANGED <<storage, undeletable>>

\* the loop going on to its next frame with the writeFile call not awaited:
\* the write is still outstanding when the next one is issued
WriteNotAwaited(a, serializes) ==
    /\ attempts[a].pc = "writing"
    /\ \E r \in Awaited(a, "write") :
         Step(a, RunFrames(AfterWrite(attempts[a], r.name), serializes))
    /\ UNCHANGED <<storage, undeletable>>

\* writeFile resolves: the file is stored, and the loop goes on to the next await
WriteOk(a, serializes) ==
    /\ attempts[a].pc = "writing"
    /\ \E r \in Awaited(a, "write") :
         /\ storage' = storage \cup { r.name }
         /\ Step(a, RunFrames(AfterWrite([attempts[a] EXCEPT !.pending = @ \ {r}],
                                         r.name),
                              serializes))
    /\ UNCHANGED undeletable

\* writeFile rejects: the exception leaves synthesizeVideo from the loop
WriteFail(a) ==
    /\ attempts[a].pc = "writing"
    /\ \E r \in Awaited(a, "write") :
         Step(a, Thrown([attempts[a] EXCEPT !.pending = @ \ {r}],
                        "writeFile failed."))
    /\ UNCHANGED <<storage, undeletable>>

\* exec resolves: output.mp4 exists, stage muxing 0.9, readFile issued
ExecOk(a) ==
    /\ attempts[a].pc = "exec"
    /\ \E r \in Awaited(a, "exec") :
         /\ storage' = storage \cup { OutputFile }
         /\ Step(a, [Staged(attempts[a], "muxing", 9, 10) EXCEPT
                        !.pc = "reading",
                        !.pending = (@ \ {r}) \cup { [op |-> "read",
                                                      name |-> OutputFile] }])
    /\ UNCHANGED undeletable

\* exec rejects with no finally block around it: the exception leaves
\* synthesizeVideo at once
ExecFailNoFinally(a) ==
    /\ attempts[a].pc = "exec"
    /\ \E r \in Awaited(a, "exec") : \E partial \in BOOLEAN :
         /\ storage' = IF partial THEN storage \cup { OutputFile } ELSE storage
         /\ Step(a, Thrown([attempts[a] EXCEPT !.pending = @ \ {r}], "exec failed."))
    /\ UNCHANGED undeletable

\* exec rejects, with or without a partial output.mp4 left behind
ExecFail(a) ==
    /\ attempts[a].pc = "exec"
    /\ \E r \in Awaited(a, "exec") : \E partial \in BOOLEAN :
         /\ storage' = IF partial THEN storage \cup { OutputFile } ELSE storage
         /\ Step(a, StartCleanup([attempts[a] EXCEPT !.pending = @ \ {r},
                                                     !.err = "exec failed."]))
    /\ UNCHANGED undeletable

\* readFile resolves with a Uint8Array
ReadOk(a) ==
    /\ attempts[a].pc = "reading"
    /\ OutputFile \in storage
    /\ \E r \in Awaited(a, "read") :
         Step(a, StartCleanup([Staged(attempts[a], "muxing", 1, 1) EXCEPT
                                  !.pending = @ \ {r}, !.data = TRUE]))
    /\ UNCHANGED <<storage, undeletable>>

\* ReadWrongType with stage muxing 1 reported as soon as readFile resolves,
\* ahead of the `instanceof Uint8Array` test
ReadWrongTypeReported(a) ==
    /\ attempts[a].pc = "reading"
    /\ OutputFile \in storage
    /\ \E r \in Awaited(a, "read") :
         Step(a, StartCleanup([Staged(attempts[a], "muxing", 1, 1) EXCEPT
                                  !.pending = @ \ {r},
                                  !.err = "Unexpected encoder output format."]))
    /\ UNCHANGED <<storage, undeletable>>

\* readFile resolves with something that is not a Uint8Array
ReadWrongType(a) ==
    /\ attempts[a].pc = "reading"
    /\ OutputFile \in storage
    /\ \E r \in Awaited(a, "read") :
         Step(a, StartCleanup([attempts[a] EXCEPT
                                  !.pending = @ \ {r},
                                  !.err = "Unexpected encoder output format."]))
    /\ UNCHANGED <<storage, undeletable>>

\* readFile rejects
ReadFail(a) ==
    /\ attempts[a].pc = "reading"
    /\ \E r \in Awaited(a, "read") :
         Step(a, StartCleanup([attempts[a] EXCEPT !.pending = @ \ {r},
                                                  !.err = "readFile failed."]))
    /\ UNCHANGED <<storage, undeletable>>

\* cleanupFfmpeg after one deleteFile has returned or thrown (the throw is
\* swallowed): the next delete, or the end of the finally block
AfterDelete(att) ==
    IF att.cleanupIdx <= Len(att.writtenFiles)
    THEN [att EXCEPT
             !.cleanupIdx = @ + 1,
             !.pending = @ \cup { [op |-> "delete",
                                   name |-> CleanupTarget(att.writtenFiles,
                                                          att.cleanupIdx + 1)] }]
    ELSE AfterCleanup(att)

\* DeleteReturn with no try/catch around deleteFile: a delete that fails
\* leaves cleanupFfmpeg, and the finally block, by its exception
DeleteReturnThrows(a) ==
    /\ attempts[a].pc = "cleanup"
    /\ \E r \in Awaited(a, "delete") :
         /\ storage' = IF r.name \in undeletable THEN storage ELSE storage \ { r.name }
         /\ Step(a, IF r.name \in undeletable /\ r.name \in storage
                    THEN Thrown([attempts[a] EXCEPT !.pending = @ \ {r},
                                                    !.deleteFailed = TRUE],
                                "deleteFile failed.")
                    ELSE AfterDelete([attempts[a] EXCEPT !.pending = @ \ {r}]))
    /\ UNCHANGED undeletable

\* deleteFile returns, or throws and is swallowed: the name is gone unless it
\* cannot be deleted (deleting a missing name throws too, and changes nothing)
DeleteReturn(a) ==
    /\ attempts[a].pc = "cleanup"
    /\ \E r \in Awaited(a, "delete") :
         /\ storage' = IF r.name \in undeletable THEN storage ELSE storage \ { r.name }
         /\ Step(a, AfterDelete([attempts[a] EXCEPT
                                    !.pending = @ \ {r},
                                    !.deleteFailed = @ \/ (r.name \in undeletable
                                                           /\ r.name \in storage)]))
    /\ UNCHANGED undeletable

\* readFile rejects because output.mp4 is not in working storage
ReadMissing(a) == OutputFile \notin storage /\ ReadFail(a)

\* the files deleteFile cannot remove, drawn as an input
UndeletableChoices == { {}, { FrameFile(0) }, { FrameFile(1), OutputFile } }

\* the first click on Render Video of a session
FirstRender == clicks = 0 /\ HandleRender

InitApp ==
    /\ view = scenes
    /\ nextId = Len(scenes) + 1
    /\ selectedSceneId = scenes[1].id
    /\ previewTime = 0
    /\ previewCalls = renderPreviewFrame(scenes, 0)
    /\ isPreviewPlaying = TRUE
    /\ rafLoop = NewLoop(0, totalDurationForScenes(scenes))
    /\ renderState = IdleState
    /\ previousUrlRef = NoUrl
    /\ liveUrls = {}
    /\ attempts = <<>>
    /\ clicks = 0
    /\ storage = {}
    /\ queue = <<>>

\* the page with a scene list the editor can have produced
InitExport ==
    /\ scenes \in SceneLists
    /\ undeletable \in UndeletableChoices
    /\ InitApp

\* one export attempt, with every failure the encoder and the canvas can produce
Next ==
    \/ FirstRender
    \/ \E a \in 1..clicks : \E surface, serializes \in BOOLEAN :
           LoadOk(a, surface, serializes)
    \/ \E a \in 1..clicks : LoadFail(a)
    \/ \E a \in 1..clicks : \E serializes \in BOOLEAN : WriteOk(a, serializes)
    \/ \E a \in 1..clicks : WriteFail(a)
    \/ \E a \in 1..clicks : ExecOk(a)
    \/ \E a \in 1..clicks : ExecFail(a)
    \/ \E a \in 1..clicks : ReadOk(a)
    \/ \E a \in 1..clicks : ReadWrongType(a)
    \/ \E a \in 1..clicks : ReadFail(a)
    \/ \E a \in 1..clicks : DeleteReturn(a)

Spec == InitExport /\ [][Next]_vars

InitOverlap ==
    /\ scenes \in { list \in SceneLists : Len(list) = 1 }
    /\ undeletable = {}
    /\ InitApp

\* Render Video clicked at any time, against an encoder that does not fail
NextOverlap ==
    \/ HandleRender
    \/ \E a \in 1..clicks : LoadOk(a, TRUE, TRUE)
    \/ \E a \in 1..clicks : WriteOk(a, TRUE)
    \/ \E a \in 1..clicks : ExecOk(a)
    \/ \E a \in 1..clicks : ReadOk(a)
    \/ \E a \in 1..clicks : ReadMissing(a)
    \/ \E a \in 1..clicks : DeleteReturn(a)

SpecOverlap == InitOverlap /\ [][NextOverlap]_vars

----------------------------------------------------------------------------
(* The preview timeline *)

\* the times the preview is drawn at, from before 0 to past the end
PreviewTimes(list) == (0 - MaxOvershoot)..(totalDurationForScenes(list) + MaxOvershoot)

\* setPreviewTime(t), then the effect on [previewTime, scenes] paints the canvas
SetPreviewTime(t) ==
    /\ previewTime' = t
    /\ previewCalls' = renderPreviewFrame(scenes, t)
    /\ UNCHANGED <<isPreviewPlaying, rafLoop, sceneVars, exportVars>>

\* the preview time moves by one hundredth of a second, either way
NextTimeline ==
    \E t \in { previewTime - 1, previewTime + 1 } \cap PreviewTimes(scenes) :
        SetPreviewTime(t)

InitTimeline ==
    /\ scenes \in SceneLists
    /\ undeletable = {}
    /\ InitApp

SpecTimeline == InitTimeline /\ [][NextTimeline]_vars

\* where scene i starts and ends on the timeline
SceneStart(list, i) == SumDurations(list, i - 1)
SceneEnd(list, i) == SumDurations(list, i)

\* the scenes whose half-open interval holds the time
Owners(list, time) ==
    { i \in 1..Len(list) : SceneStart(list, i) <= time /\ time < SceneEnd(list, i) }

\* C5: renderPreviewFrame renders exactly one scene; for a time in
\* [0, totalDuration) it is the one scene whose interval [start, start +
\* duration) holds the time, at progress (time - start) / duration, which lies
\* in [0, 1); for a time at or past totalDuration it is the last scene at
\* progress exactly 1.
C5_TimelineCoverage ==
    /\ Len(previewCalls) = 1
    /\ LET call == previewCalls[1]
           total == totalDurationForScenes(scenes)
       IN /\ (0 <= previewTime /\ previewTime < total) =>
                /\ Owners(scenes, previewTime) = { call.scene }
                /\ call.den = scenes[call.scene].duration
                /\ call.num = previewTime - SceneStart(scenes, call.scene)
                /\ 0 <= call.num /\ call.num < call.den
          /\ previewTime >= total =>
                /\ call.scene = Len(scenes)
                /\ call.num = call.den

\* C5 witness: a time on the boundary between two scenes is drawn as the start
\* of the second one, and a time past the end as the end of the last one
C5_Witness_Boundary ==
    /\ Len(scenes) = 2
    /\ previewTime = scenes[1].duration
    /\ previewCalls = << [scene |-> 2, num |-> 0, den |-> scenes[2].duration] >>

----------------------------------------------------------------------------
(* The export attempt *)

Range(seq) == { seq[i] : i \in 1..Len(seq) }

\* the number a sequence of decimal digits writes
RECURSIVE DigitsValue(_)
DigitsValue(digits) ==
    IF digits = <<>> THEN 0
    ELSE 10 * DigitsValue(SubSeq(digits, 1, Len(digits) - 1)) + digits[Len(digits)]

\* the fractions an attempt has reported for stage `frames`, in order
FrameReports(att) == SelectSeq(att.stageLog, LAMBDA r : r.stage = "frames")

\* the frames synthesizeVideo's two loops write for a scene list
RECURSIVE FramesToWrite(_, _)
FramesToWrite(list, n) ==
    IF n = 0 THEN 0 ELSE FramesToWrite(list, n - 1) + FramesForScene(list[n])

\* C1: once an export attempt that acquired the encoder has ended, by success
\* or by a failure at any step, and no deleteFile of its cleanup failed, none
\* of the frame files it wrote and no output.mp4 remain in working storage.
C1_CleanupCompleteness ==
    \A a \in 1..clicks :
        LET att == attempts[a]
        IN (att.pc = "done" /\ att.acquired /\ ~att.deleteFailed) =>
               (Range(att.writtenFiles) \cup { OutputFile }) \cap storage = {}

\* C2: for scene durations in [MIN_DURATION, MAX_DURATION] the fractions
\* reported for stage `frames` never decrease and never exceed 1, and the one
\* reported after the last frame is exactly 1: the frames written are
\* totalFrames in number.
C2_ProgressMonotone ==
    \A a \in 1..clicks :
        LET att == attempts[a]
            reports == FrameReports(att)
        IN (\A i \in 1..Len(att.scenes) :
                /\ att.scenes[i].duration >= MIN_DURATION * 100
                /\ att.scenes[i].duration <= MAX_DURATION * 100) =>
               /\ \A i \in 1..Len(reports) : reports[i].num <= reports[i].den
               /\ \A i \in 1..(Len(reports) - 1) :
                      reports[i].num * reports[i + 1].den
                          <= reports[i + 1].num * reports[i].den
               /\ att.execIssued =>
                      /\ reports # <<>>
                      /\ reports[Len(reports)].num = reports[Len(reports)].den
                      /\ Len(att.writtenFiles) = att.totalFrames

\* C6: the k-th writeFile call of an attempt, k = 0, 1, 2, ..., names
\* "frame_", then k written in exactly 5 decimal digits, then ".png"; the
\* numbering starts at 0, has no gaps and no repeats, and does not restart
\* at a scene boundary.
C6_FrameNaming ==
    \A a \in 1..clicks :
        LET log == attempts[a].writeLog
        IN \A k \in 1..Len(log) :
               /\ log[k].name[1] = "frame_"
               /\ log[k].name[3] = ".png"
               /\ Len(log[k].name[2]) = 5
               /\ \A i \in 1..5 : log[k].name[2][i] \in 0..9
               /\ DigitsValue(log[k].name[2]) = k - 1

\* C6 witness: a write of the second scene, numbered after all of the first
\* scene's frames
C6_Witness_AcrossScenes ==
    \E a \in 1..clicks :
        LET att == attempts[a]
            first == FramesForScene(att.scenes[1])
        IN /\ Len(att.scenes) = 2
           /\ Len(att.writeLog) > first
           /\ att.writeLog[first + 1].scene = att.scenes[2].id
           /\ DigitsValue(att.writeLog[first + 1].name[2]) = first

\* C7: an attempt has at most one writeFile outstanding, the one for the
\* frame it issued last; every frame before it has been written, in the order
\* of the sequence numbers; and exec is issued only when no write is
\* outstanding and every frame of every scene has been written.
C7_WriteOrdering ==
    \A a \in 1..clicks :
        LET att == attempts[a]
            log == att.writeLog
            writes == { r \in att.pending : r.op = "write" }
        IN /\ Cardinality(writes) <= 1
           /\ \A r \in writes :
                  /\ log # <<>> /\ r.name = log[Len(log)].name
                  /\ Len(att.writtenFiles) = Len(log) - 1
           /\ Len(att.writtenFiles) <= Len(log)
           /\ \A k \in 1..Len(att.writtenFiles) : att.writtenFiles[k] = log[k].name
           /\ \A k \in 1..(Len(log) - 1) :
                  DigitsValue(log[k].name[2]) < DigitsValue(log[k + 1].name[2])
           /\ att.execIssued =>
                  /\ writes = {}
                  /\ Len(att.writtenFiles) = Len(log)
                  /\ Len(log) = FramesToWrite(att.scenes, Len(att.scenes))

\* C7 witness: exec has been issued after the frames of two scenes were written
C7_Witness_ExecAfterWrites ==
    \E a \in 1..clicks :
        /\ attempts[a].pc = "exec"
        /\ Len(attempts[a].scenes) = 2
        /\ Len(attempts[a].writtenFiles) > FramesForScene(attempts[a].scenes[1])

\* C8: when every frame write of an attempt succeeded and its exec failed,
\* the RenderState is never ready, the attempt ends in the error state with a
\* message and no artifact URL, and (no deleteFile having failed) none of the
\* frame files it wrote remains in working storage.
C8_ScenarioD ==
    \A a \in 1..clicks :
        LET att == attempts[a]
        IN att.err = "exec failed." =>
               /\ renderState.status # "ready"
               /\ BlobUrl(a) \notin liveUrls
               /\ att.pc = "done" =>
                      /\ att.outcome = "error"
                      /\ renderState.status = "error"
                      /\ renderState.error # ""
                      /\ renderState.url = NoUrl
                      /\ ~att.deleteFailed =>
                             Range(att.writtenFiles) \cap storage = {}

\* C8 witness: an attempt over two scenes has ended after its exec failed,
\* with every deleteFile of its cleanup done
C8_Witness_ExecFailed ==
    \E a \in 1..clicks :
        /\ attempts[a].pc = "done"
        /\ attempts[a].err = "exec failed."
        /\ ~attempts[a].deleteFailed
        /\ Len(attempts[a].scenes) = 2
        /\ Len(attempts[a].writtenFiles) = FramesToWrite(attempts[a].scenes, 2)
        /\ renderState.status = "error"

\* exec of the attempt has resolved: stage muxing 0.9 is reported right after it
ExecSucceeded(att) == \E i \in 1..Len(att.stageLog) : att.stageLog[i] = Report("muxing", 9, 10)

\* C11: the RenderState is ready, with an artifact URL, only if the attempt
\* that produced it acquired the encoder, rendered and wrote every frame of
\* every scene, had its exec succeed and its readFile return a byte buffer;
\* an attempt in which a step failed never sets ready, and ends in error.
C11_NoPartialArtifact ==
    /\ renderState.status = "ready" =>
           /\ renderState.url # NoUrl
           /\ \E a \in 1..clicks : /\ attempts[a].outcome = "ready"
                                   /\ renderState.url = BlobUrl(a)
    /\ \A a \in 1..clicks :
           LET att == attempts[a]
           IN /\ att.outcome = "ready" =>
                     /\ att.acquired
                     /\ Len(att.writeLog) = FramesToWrite(att.scenes, Len(att.scenes))
                     /\ att.writtenFiles = [k \in 1..Len(att.writeLog) |->
                                                att.writeLog[k].name]
                     /\ ExecSucceeded(att)
                     /\ att.data
                     /\ att.err = ""
              /\ att.err # "" =>
                     /\ att.outcome # "ready"
                     /\ BlobUrl(a) \notin liveUrls
                     /\ renderState # ReadyState(BlobUrl(a))
                     /\ att.pc = "done" =>
                            /\ att.outcome = "error"
                            /\ renderState = ErrorState(att.err)

\* C11 witness: an attempt over two scenes has ended ready, and the
\* RenderState carries its URL
C11_Witness_Ready ==
    \E a \in 1..clicks :
        /\ attempts[a].outcome = "ready"
        /\ Len(attempts[a].scenes) = 2
        /\ renderState = ReadyState(BlobUrl(a))

\* the fractions an attempt has reported for stage `muxing`, in order
MuxingReports(att) == SelectSeq(att.stageLog, LAMBDA r : r.stage = "muxing")

MuxingProtocol == << Report("muxing", 1, 10), Report("muxing", 9, 10), Report("muxing", 1, 1) >>

\* the reports of stage `muxing` are the last reports of the attempt, and are
\* 0.1, 0.9, 1 in this order as far as they go
MuxingInOrder(att) ==
    LET mux == MuxingReports(att)
    IN /\ Len(mux) <= 3
       /\ mux = SubSeq(MuxingProtocol, 1, Len(mux))
       /\ mux = SubSeq(att.stageLog, Len(att.stageLog) - Len(mux) + 1, Len(att.stageLog))

\* what each report of stage `muxing` tells about the attempt
MuxingMeaning(att) ==
    LET mux == MuxingReports(att)
    IN /\ Len(mux) >= 1 <=> att.execIssued
       /\ Len(mux) >= 1 =>
              Len(FrameReports(att)) = FramesToWrite(att.scenes, Len(att.scenes))
       /\ Len(mux) >= 2 <=> att.pc \in { "reading", "cleanup", "done" }
                               /\ att.execIssued /\ att.err # "exec failed."
       /\ att.pc = "reading" => att.pending = { [op |-> "read", name |-> OutputFile] }
       /\ Len(mux) = 3 <=> att.data
       /\ att.data => att.err = ""
       /\ att.err = "exec failed." => Len(mux) = 1
       /\ att.err \in { "readFile failed.", "Unexpected encoder output format." } =>
              Len(mux) = 2

\* the step in which attempt a makes its next report of stage `muxing`: 0.1
\* in the step that issues exec, 0.9 in the step in which exec resolves and
\* readFile is issued, 1 in the step in which readFile resolves
MuxingStep(a) ==
    LET old == attempts[a]
        new == attempts'[a]
        before == Len(MuxingReports(old))
        after == Len(MuxingReports(new))
    IN /\ after \in { before, before + 1 }
       /\ (before = 0 /\ after = 1) =>
              /\ ~old.execIssued /\ old.pc \in { "loading", "writing" }
              /\ new.pending = { [op |-> "exec", name |-> OutputFile] }
       /\ (before = 1 /\ after = 2) =>
              /\ old.pending = { [op |-> "exec", name |-> OutputFile] }
              /\ OutputFile \in storage'
              /\ new.pending = { [op |-> "read", name |-> OutputFile] }
       /\ (before = 2 /\ after = 3) =>
              /\ old.pending = { [op |-> "read", name |-> OutputFile] }
              /\ new.pc = "cleanup" /\ new.data /\ new.err = ""

\* C14: an attempt reports stage muxing at 0.1 after its last frames report
\* and before exec is invoked, at 0.9 only after exec has succeeded and before
\* readFile, and at 1 only after readFile has succeeded and returned a byte
\* buffer; when exec fails neither 0.9 nor 1 is reported, and when the read or
\* the type check fails 1 is not reported.
C14_MuxingProtocol ==
    /\ [](\A a \in 1..clicks : MuxingInOrder(attempts[a]) /\ MuxingMeaning(attempts[a]))
    /\ [][\A a \in 1..clicks : MuxingStep(a)]_vars

\* C14 witness: an attempt over two scenes has reported 0.1, 0.9 and 1 and
\* has ended
C14_Witness_MuxingDone ==
    \E a \in 1..clicks :
        /\ MuxingReports(attempts[a]) = MuxingProtocol
        /\ Len(attempts[a].scenes) = 2
        /\ attempts[a].pc = "done"

\* an attempt that has been through cleanupFfmpeg and has ended
CleanedUp(att) == att.pc = "done" /\ att.cleanupIdx > 0

\* the outcome of an ended attempt is the one its try block decided, and
\* cleanupFfmpeg went through every written frame file and output.mp4: what
\* is left of them is what cannot be deleted
SwallowedOutcome(a) ==
    LET att == attempts[a]
    IN CleanedUp(att) =>
           /\ att.cleanupIdx = Len(att.writtenFiles) + 1
           /\ (Range(att.writtenFiles) \cup { OutputFile }) \cap storage
                  \subseteq undeletable
           /\ (ExecSucceeded(att) /\ att.data) =>
                  /\ att.outcome = "ready"
                  /\ renderState = ReadyState(BlobUrl(a))
           /\ att.err # "" =>
                  /\ att.outcome = "error"
                  /\ att.err \in { "exec failed.", "readFile failed.",
                                   "Unexpected encoder output format." }
                  /\ renderState = ErrorState(att.err)

\* a step of cleanupFfmpeg: the error and the data of the try block stay as
\* they are, and the next name is asked to be deleted, whether or not the
\* last deleteFile failed
SwallowedStep(a) ==
    LET old == attempts[a]
        new == attempts'[a]
    IN old.pc = "cleanup" =>
           /\ new.err = old.err /\ new.data = old.data
           /\ new.writtenFiles = old.writtenFiles
           /\ new.pc = "cleanup" =>
                  /\ new.cleanupIdx = old.cleanupIdx + 1
                  /\ new.pending = { [op |-> "delete",
                                      name |-> CleanupTarget(old.writtenFiles,
                                                             old.cleanupIdx + 1)] }
           /\ new.pc # "cleanup" =>
                  /\ new.pc = "done"
                  /\ old.cleanupIdx = Len(old.writtenFiles) + 1
                  /\ new.outcome = IF old.err = "" /\ old.data THEN "ready" ELSE "error"

\* C15: a deleteFile that fails during cleanup, for a frame file or for
\* output.mp4, never changes the outcome of the attempt: an attempt whose exec
\* and read succeeded still ends ready, a failed attempt still reports its
\* original error, and cleanup goes on to delete every remaining written frame
\* file and output.mp4.
C15_DeletionFailuresSwallowed ==
    /\ [](\A a \in 1..clicks : SwallowedOutcome(a))
    /\ [][\A a \in 1..clicks : SwallowedStep(a)]_vars

\* C15 witness: the deleteFile of the first frame failed, the later frames
\* and output.mp4 were deleted all the same, and the attempt ended ready
C15_Witness_FailedDelete ==
    \E a \in 1..clicks :
        /\ attempts[a].pc = "done"
        /\ attempts[a].deleteFailed
        /\ attempts[a].outcome = "ready"
        /\ Len(attempts[a].writtenFiles) > 1
        /\ storage = { FrameFile(0) }

----------------------------------------------------------------------------
(* Render Video clicked at any time *)

\* C3: at most one export attempt is in flight at any moment.
C3_SingleAttemptInFlight == Cardinality(InFlight) <= 1

\* how far along one attempt a RenderState status is
StatusRank(status) ==
    IF status = "idle" THEN 0
    ELSE IF status = "loading-encoder" THEN 1
    ELSE IF status = "encoding" THEN 2
    ELSE 3

\* C4: the RenderState only moves forward along idle, loading-encoder,
\* encoding, ready, or to error from a state that is not terminal; it leaves
\* ready or error only by the start of a new attempt, begun when no earlier
\* attempt is still in flight.
C4_OneDirectional ==
    [][ \/ clicks' = clicks + 1 /\ InFlight = {}
        \/ /\ renderState.status \notin { "ready", "error" }
           /\ StatusRank(renderState'.status) >= StatusRank(renderState.status)
        \/ renderState' = renderState ]_vars

\* C10: every artifact URL produced and not yet released is the one
\* handleRender releases when it is next invoked, so a new attempt begins with
\* every earlier URL released, and at most one produced URL is unreleased at
\* any time.
C10_ArtifactRelease ==
    /\ liveUrls \subseteq { previousUrlRef }
    /\ Cardinality(liveUrls) <= 1

\* the names in working storage that belong to attempt a while it is in
\* flight: the frame files it has handed to writeFile, and output.mp4 from
\* the moment it has invoked exec
OwnedFiles(a) ==
    IF a \notin InFlight THEN {}
    ELSE { attempts[a].writeLog[k].name : k \in 1..Len(attempts[a].writeLog) }
             \cup (IF attempts[a].execIssued THEN { OutputFile } ELSE {})

\* the names the encoder touches when it answers the call attempt b awaits:
\* the file written, read or deleted, and output.mp4 for exec
TouchedBy(b) == { r.name : r \in { q \in attempts[b].pending : q.op # "load" } }

\* C17: the frame files and output.mp4 of an attempt in flight are touched
\* only by that attempt: no other attempt overwrites one of its frame files,
\* deletes one of its files, or writes, reads or deletes its output.mp4,
\* whenever Render Video is clicked.
C17_StorageExclusive ==
    [][ \A b \in 1..clicks :
            (queue # <<>> /\ Head(queue) = b /\ attempts'[b] # attempts[b]) =>
                \A a \in 1..clicks :
                    a # b => TouchedBy(b) \cap OwnedFiles(a) = {} ]_vars

----------------------------------------------------------------------------
(* The scene editor *)

\* buildInitialScenes(), with ids 1..3
buildInitialScenes ==
    << [id |-> 1, duration |-> 400, gradientId |-> "aurora"],
       [id |-> 2, duration |-> 350, gradientId |-> "midnight"],
       [id |-> 3, duration |-> 300, gradientId |-> "sunset"] >>

SceneIds(list) == { list[i].id : i \in 1..Len(list) }

\* current.filter((scene) => scene.id !== id)
WithoutScene(list, id) == SelectSeq(list, LAMBDA scene : scene.id # id)

\* the values typed into the duration input, in hundredths of a second
TypedDurations == { 0, 203, 900 }

\* React renders again: the closures see the current scene list
Rerender ==
    /\ view # scenes
    /\ view' = scenes
    /\ UNCHANGED <<scenes, nextId, selectedSceneId, previewVars, exportVars>>

\* a click on Add Scene, handled by the addScene of the last render
addScene ==
    /\ Len(view) < MAX_SCENES
    /\ nextId <= MaxIds
    /\ LET template == IF view # <<>> THEN view[Len(view)] ELSE buildInitialScenes[1]
           \* findIndex is 0-based, -1 when absent; GRADIENTS here is 1-based
           gradient == GRADIENTS[(GradientIndex(template.gradientId) % Len(GRADIENTS)) + 1]
           newScene == [id |-> nextId,
                        duration |-> clamp(template.duration, MIN_DURATION * 100,
                                           MAX_DURATION * 100),
                        gradientId |-> gradient]
       IN /\ scenes' = Append(scenes, newScene)
          /\ selectedSceneId' = newScene.id
          /\ nextId' = nextId + 1
    /\ UNCHANGED <<view, previewVars, exportVars>>

\* a click on Remove of a scene of the last render, handled by its removeScene
removeScene(id) ==
    /\ Len(view) # 1
    /\ scenes' = WithoutScene(scenes, id)
    /\ selectedSceneId' =
           IF selectedSceneId = id /\ SceneIds(view) \ { id } # {}
           THEN WithoutScene(view, id)[1].id
           ELSE selectedSceneId
    /\ UNCHANGED <<view, nextId, previewVars, exportVars>>

\* the duration input of the scene editor changes: updateScene on the active
\* scene of the last render
updateScene(typed) ==
    /\ view # <<>>
    /\ LET activeScene ==
               IF selectedSceneId \in SceneIds(view)
               THEN CHOOSE scene \in Range(view) : scene.id = selectedSceneId
               ELSE view[1]
           updated == [activeScene EXCEPT
                          !.duration = clamp(typed, MIN_DURATION * 100,
                                             MAX_DURATION * 100)]
       IN scenes' = [i \in 1..Len(scenes) |->
                        IF scenes[i].id = activeScene.id THEN updated ELSE scenes[i]]
    /\ UNCHANGED <<view, nextId, selectedSceneId, previewVars, exportVars>>

InitScenes ==
    /\ scenes = buildInitialScenes
    /\ undeletable = {}
    /\ InitApp

NextScenes ==
    \/ Rerender
    \/ addScene
    \/ \E id \in SceneIds(view) : removeScene(id)
    \/ \E typed \in TypedDurations : updateScene(typed)

SpecScenes == InitScenes /\ [][NextScenes]_vars

\* C9: the scene list always holds at least one scene, whatever addScene,
\* removeScene and updateScene calls were made, several from one render
\* included.
C9_AtLeastOneScene == Len(scenes) >= 1

----------------------------------------------------------------------------
(* Render Video on an empty scene list *)

\* a click on Render Video while the page shows no scene
RenderEmpty == view = <<>> /\ HandleRender

\* the scene editor, and Render Video once it has emptied the list
NextEmpty ==
    \/ Rerender
    \/ addScene
    \/ \E id \in SceneIds(view) : removeScene(id)
    \/ \E typed \in TypedDurations : updateScene(typed)
    \/ RenderEmpty

SpecEmpty == InitScenes /\ [][NextEmpty]_vars

\* C13: synthesizeVideo called with an empty scene list fails with the
\* validation error before the encoder is acquired, before any stage is
\* reported through onStage and before any writeFile, exec, readFile or
\* deleteFile call; the attempt ends in the error state.
C13_EmptyListRejected ==
    \A a \in 1..clicks :
        LET att == attempts[a]
        IN att.scenes = <<>> =>
               /\ att.pc = "done"
               /\ att.outcome = "error"
               /\ att.err = "Add at least one scene before rendering."
               /\ ~att.acquired
               /\ att.stageLog = <<>>
               /\ att.writeLog = <<>> /\ att.writtenFiles = <<>>
               /\ ~att.execIssued
               /\ att.cleanupIdx = 0
               /\ att.pending = {}
               /\ \A i \in 1..Len(queue) : queue[i] # a
               /\ storage = {}
               /\ a = clicks => renderState = ErrorState(att.err)

\* C13 witness: Render Video was clicked after the editor had removed every
\* scene, and the page shows the validation error
C13_Witness_EmptyRendered ==
    /\ clicks >= 1
    /\ attempts[clicks].scenes = <<>>
    /\ scenes = <<>>
    /\ renderState.status = "error"

----------------------------------------------------------------------------
(* The frame count law *)

\* the scene lists whose frame counts are looked at: the shortest and the
\* longest duration the editor allows, one that is not a whole number of
\* frames, and the three scenes the page starts with
FrameLawLists ==
    { MkScenes(<< [duration |-> MIN_DURATION * 100, gradientId |-> "aurora"] >>),
      MkScenes(<< [duration |-> MAX_DURATION * 100, gradientId |-> "aurora"] >>),
      MkScenes(<< [duration |-> 203, gradientId |-> "midnight"] >>),
      buildInitialScenes }

InitFrames ==
    /\ scenes \in FrameLawLists
    /\ undeletable = {}
    /\ InitApp

\* one export attempt that nothing fails
NextFrames ==
    \/ FirstRender
    \/ \E a \in 1..clicks : LoadOk(a, TRUE, TRUE)
    \/ \E a \in 1..clicks : WriteOk(a, TRUE)
    \/ \E a \in 1..clicks : ExecOk(a)
    \/ \E a \in 1..clicks : ReadOk(a)
    \/ \E a \in 1..clicks : DeleteReturn(a)

SpecFrames == InitFrames /\ [][NextFrames]_vars

\* the frames of its i-th scene an attempt has written
WrittenForScene(att, i) ==
    Cardinality({ k \in 1..Len(att.writtenFiles) :
                    att.writeLog[k].scene = att.scenes[i].id })

\* the scenes whose inner loop the attempt has left
ScenesDone(att) == { i \in 1..Len(att.scenes) : i < att.sceneIdx }

\* C12: the frames an attempt writes for a scene are max(1, round(duration *
\* 24)) in number, 48 for a duration of 2 s and 192 for 8 s; for the scenes
\* of 4, 3.5 and 3 s they are 96, 84 and 72, and the frames written in all
\* are totalFrames = 252.
C12_FrameCountLaw ==
    \A a \in 1..clicks :
        LET att == attempts[a]
        IN /\ \A i \in 1..Len(att.scenes) :
                  WrittenForScene(att, i) <= Max(1, JsRound(att.scenes[i].duration * 24))
           /\ \A i \in ScenesDone(att) :
                  /\ WrittenForScene(att, i) = Max(1, JsRound(att.scenes[i].duration * 24))
                  /\ att.scenes[i].duration = 200 => WrittenForScene(att, i) = 48
                  /\ att.scenes[i].duration = 800 => WrittenForScene(att, i) = 192
           /\ (att.scenes = buildInitialScenes /\ att.execIssued) =>
                  /\ WrittenForScene(att, 1) = 96
                  /\ WrittenForScene(att, 2) = 84
                  /\ WrittenForScene(att, 3) = 72
                  /\ Len(att.writtenFiles) = 252
                  /\ att.totalFrames = 252

\* C12 witness: the attempt over the scenes of 4, 3.5 and 3 s has written its
\* last frame and gone on to exec
C12_Witness_ThreeScenes ==
    \E a \in 1..clicks :
        /\ attempts[a].scenes = buildInitialScenes
        /\ attempts[a].pc = "exec"
        /\ Len(attempts[a].writtenFiles) = 252

----------------------------------------------------------------------------
(* The preview clock *)

\* the time from one animation frame to the next, in milliseconds
FrameGaps == { 500, 2500 }

\* the raf callback of the scheduled closure runs, `gap` after the frame
\* before; a change made to a scene by an input event has been rendered by
\* then, a previewTime set by the callback before may not have been
Tick(gap) ==
    /\ rafLoop.active
    /\ view = scenes
    /\ LET timestamp == gap
           startTimestamp == StartOf(rafLoop, timestamp)
           elapsed == ElapsedAt(rafLoop, timestamp)
           wrapped == elapsed >= rafLoop.totalDuration
       IN /\ previewTime' = IF wrapped THEN 0 ELSE elapsed
          /\ rafLoop' = [rafLoop EXCEPT
                            !.started = TRUE,
                            !.startTimestamp =
                                (IF wrapped THEN timestamp ELSE startTimestamp)
                                    - timestamp]
    /\ UNCHANGED <<previewCalls, isPreviewPlaying, sceneVars, exportVars>>

\* React renders the state set since the last render and runs the effects
\* whose dependencies changed: the loop effect and the canvas effect
Commit ==
    LET total == totalDurationForScenes(scenes)
        stale == DepsChanged(rafLoop, isPreviewPlaying, previewTime, total)
    IN /\ \/ view # scenes
          \/ stale
          \/ previewCalls # renderPreviewFrame(scenes, previewTime)
       /\ view' = scenes
       /\ rafLoop' = IF stale THEN EffectRun(isPreviewPlaying, previewTime, total)
                     ELSE rafLoop
       /\ previewCalls' = renderPreviewFrame(scenes, previewTime)
       /\ UNCHANGED <<scenes, nextId, selectedSceneId, previewTime,
                      isPreviewPlaying, exportVars>>

\* a click on Pause / Play, and the render that follows it
TogglePlay ==
    /\ view = scenes
    /\ isPreviewPlaying' = ~isPreviewPlaying
    /\ rafLoop' = EffectRun(~isPreviewPlaying, previewTime,
                            totalDurationForScenes(scenes))
    /\ previewCalls' = renderPreviewFrame(scenes, previewTime)
    /\ UNCHANGED <<previewTime, sceneVars, exportVars>>

\* a click on Restart, and the render that follows it
Restart ==
    /\ view = scenes
    /\ previewTime' = 0
    /\ LET total == totalDurationForScenes(scenes)
       IN rafLoop' = IF DepsChanged(rafLoop, isPreviewPlaying, 0, total)
                     THEN EffectRun(isPreviewPlaying, 0, total)
                     ELSE rafLoop
    /\ previewCalls' = renderPreviewFrame(scenes, 0)
    /\ UNCHANGED <<isPreviewPlaying, sceneVars, exportVars>>

InitPreview ==
    /\ scenes = MkScenes(<< [duration |-> 200, gradientId |-> "aurora"],
                            [duration |-> 203, gradientId |-> "midnight"] >>)
    /\ undeletable = {}
    /\ InitApp

\* the preview loop, the transport buttons and the scene editor
NextPreview ==
    \/ \E gap \in FrameGaps : Tick(gap)
    \/ Commit
    \/ TogglePlay
    \/ Restart
    \/ \E id \in SceneIds(view) : removeScene(id)
    \/ \E typed \in TypedDurations : updateScene(typed)

SpecPreview == InitPreview /\ [][NextPreview]_vars

\* the step is a run of the raf callback
IsTick == rafLoop' # rafLoop /\ rafLoop'.started

\* C16: while the preview is playing, after every tick of the animation loop
\* the preview time is at least 0 and strictly less than the total duration;
\* a tick whose elapsed time reaches or exceeds the total duration sets the
\* preview time to 0 and makes that tick the logical start of the loop;
\* whatever pause, resume, Restart and scene edits come between the ticks.
C16_PreviewWrap ==
    [][ IsTick =>
            LET total == totalDurationForScenes(scenes')
            IN /\ 0 <= previewTime' /\ previewTime' < total
               /\ \E gap \in FrameGaps :
                      LET elapsed == ElapsedAt(rafLoop, gap)
                      IN IF elapsed >= total
                         THEN previewTime' = 0 /\ rafLoop'.startTimestamp = 0
                         ELSE previewTime' = elapsed ]_vars

----------------------------------------------------------------------------
(* Editing while an export is in flight *)

\* an input event of the scene editor arrives while an attempt is in flight,
\* the event before it rendered
Editable == InFlight # {} /\ view = scenes

\* one export attempt that nothing fails, and the scene editor used while it
\* runs; 900 typed into the duration input is held as 8 s
NextEdits ==
    \/ FirstRender
    \/ \E a \in 1..clicks : LoadOk(a, TRUE, TRUE)
    \/ \E a \in 1..clicks : WriteOk(a, TRUE)
    \/ \E a \in 1..clicks : ExecOk(a)
    \/ \E a \in 1..clicks : ReadOk(a)
    \/ \E a \in 1..clicks : DeleteReturn(a)
    \/ InFlight # {} /\ Rerender
    \/ Editable /\ addScene
    \/ Editable /\ \E id \in SceneIds(view) : removeScene(id)
    \/ Editable /\ updateScene(900)

SpecEdits == InitPreview /\ [][NextEdits]_vars

\* frame k (from 0) of the frames the two loops of synthesizeVideo make of a
\* scene list, looked for from scene i on: its scene and its progress
RECURSIVE FrameAt(_, _, _)
FrameAt(list, i, k) ==
    LET n == Max(1, JsRound(list[i].duration * FPS))
    IN IF k < n
       THEN [scene |-> list[i].id,
             num |-> IF n <= 1 THEN 1 ELSE k,
             den |-> IF n <= 1 THEN 1 ELSE n - 1]
       ELSE FrameAt(list, i + 1, k - n)

\* the frames attempt a has rendered are the first frames of its scene list,
\* in order, and all of them once exec is issued
FramesFromSnapshot(a) ==
    LET att == attempts[a]
        log == att.writeLog
    IN /\ Len(log) <= FramesToWrite(att.scenes, Len(att.scenes))
       /\ \A k \in 1..Len(log) :
              LET frame == FrameAt(att.scenes, 1, k - 1)
              IN /\ log[k].scene = frame.scene
                 /\ log[k].num = frame.num /\ log[k].den = frame.den
       /\ att.execIssued => Len(log) = FramesToWrite(att.scenes, Len(att.scenes))

\* C18: an attempt renders every frame from the scene list as it was when
\* handleRender was invoked: addScene, removeScene and updateScene calls made
\* while it runs replace the page's list and never change the number, order,
\* scene or progress of the frames the attempt writes.
C18_SnapshotIsolation ==
    /\ [](\A a \in 1..clicks : FramesFromSnapshot(a))
    /\ [][ /\ \A a \in 1..clicks : attempts'[a].scenes = attempts[a].scenes
           /\ clicks' = clicks + 1 => attempts'[clicks'].scenes = view ]_vars

\* C18 witness: the attempt has written every frame of its two scenes and
\* ended, while the page's list was changed in length and in duration
C18_Witness_EditedInFlight ==
    \E a \in 1..clicks :
        /\ attempts[a].outcome = "ready"
        /\ Len(attempts[a].scenes) = 2
        /\ Len(attempts[a].writtenFiles) = FramesToWrite(attempts[a].scenes, 2)
        /\ Len(scenes) # 2
        /\ \E i \in 1..Len(scenes) : scenes[i].duration = MAX_DURATION * 100

====
